---- MODULE Spec2Model ----
(***************************************************************************)
(* State-machine model of the MCP weather client (src/client/main.py):     *)
(* main, MCPClient.connect_to_server, MCPClient.chat_loop,                 *)
(* MCPClient.process_query and MCPClient.cleanup.                          *)
(*                                                                         *)
(* A Python str is a sequence of one-character strings, so that suffix     *)
(* tests, strip/lower, f-string formatting and "\n".join are computed.     *)
(***************************************************************************)
EXTENDS Integers, Sequences, FiniteSets, TLC

-----------------------------------------------------------------------------
(* Bounds of the model *)

\* longest content list the completion service returns for the initial call
MaxBlocks == 2

-----------------------------------------------------------------------------
(* Python str operations *)

NL == "\n"

Whitespace == {" ", "\t", NL}

UpperLetters == <<"Q", "U", "I", "T", "Y", "P">>

LowerLetters == <<"q", "u", "i", "t", "y", "p">>

\* a suffix test that accepts the suffix anywhere in the string
endswith_anywhere(s, suffix) ==
    \E i \in 1..Len(s) :
        /\ i + Len(suffix) - 1 <= Len(s)
        /\ SubSeq(s, i, i + Len(suffix) - 1) = suffix

\* str.endswith(suffix)
endswith(s, suffix) ==
    /\ Len(s) >= Len(suffix)
    /\ SubSeq(s, Len(s) - Len(suffix) + 1, Len(s)) = suffix

RECURSIVE lstrip(_)
lstrip(s) ==
    IF s # <<>> /\ Head(s) \in Whitespace THEN lstrip(Tail(s)) ELSE s

RECURSIVE rstrip(_)
rstrip(s) ==
    IF s # <<>> /\ s[Len(s)] \in Whitespace
    THEN rstrip(SubSeq(s, 1, Len(s) - 1))
    ELSE s

\* str.strip()
strip(s) == rstrip(lstrip(s))

lower_char(c) ==
    IF \E i \in 1..Len(UpperLetters) : UpperLetters[i] = c
    THEN LowerLetters[CHOOSE i \in 1..Len(UpperLetters) : UpperLetters[i] = c]
    ELSE c

\* a lower() that leaves the letters as they are
lower_unchanged(s) == s

\* str.lower()
lower(s) == [i \in 1..Len(s) |-> lower_char(s[i])]

\* sep.join(parts)
RECURSIVE join(_, _)
join(sep, parts) ==
    IF parts = <<>> THEN <<>>
    ELSE IF Len(parts) = 1 THEN parts[1]
    ELSE parts[1] \o sep \o join(sep, Tail(parts))

-----------------------------------------------------------------------------
(* Values exchanged with the environment *)

ProgName == <<"c", "l", "i", "e", "n", "t", ".", "p", "y">>

ServerPaths ==
    { <<"s", ".", "p", "y">>,
      <<"s", ".", "j", "s">>,
      <<"s", ".", "s", "h">>,
      <<"s", ".", "p", "y", "c">>,
      <<"p", "y">>,
      <<"s", ".", "P", "Y">> }

\* sys.argv: the program name, optionally followed by the server script path
ArgvChoices == { <<ProgName>> } \cup { <<ProgName, p>> : p \in ServerPaths }

\* lines typed at the prompt
InputLines ==
    { <<"h", "i">>,
      <<" ", "y", "o">>,
      <<"q", "u", "i", "t">>,
      <<" ", "Q", "u", "I", "t", " ">> }

get_alerts_name == <<"g", "e", "t", "_", "a", "l", "e", "r", "t", "s">>

get_forecast_name == <<"g", "e", "t", "_", "f", "o", "r", "e", "c", "a", "s", "t">>

AlertsTool ==
    [name |-> get_alerts_name, description |-> "alerts", inputSchema |-> "state"]

ForecastTool ==
    [name |-> get_forecast_name, description |-> "forecast",
     inputSchema |-> "latitude,longitude"]

\* what the provider may answer to list_tools
Catalogs == { <<AlertsTool>>, <<AlertsTool, ForecastTool>> }

AlertsInput == [state |-> "CA"]

ForecastInput == [latitude |-> 1, longitude |-> 2]

OtherAlertsInput == [state |-> "NY"]

\* str(dict), as the f-string at line 113 formats tool_args
dict_str(d) ==
    IF d = AlertsInput
    THEN <<"{", "'", "s", "t", "a", "t", "e", "'", ":", " ", "'", "C", "A", "'", "}">>
    ELSE IF d = OtherAlertsInput
    THEN <<"{", "'", "s", "t", "a", "t", "e", "'", ":", " ", "'", "N", "Y", "'", "}">>
    ELSE <<"{", "'", "l", "a", "t", "i", "t", "u", "d", "e", "'", ":", " ", "1", ".", "0",
           ",", " ", "'", "l", "o", "n", "g", "i", "t", "u", "d", "e", "'", ":", " ",
           "2", ".", "0", "}">>

TextBlock(t) == [type |-> "text", text |-> t]

ToolUseBlock(i, n, a) == [type |-> "tool_use", id |-> i, name |-> n, input |-> a]

\* content blocks the completion service may put in its first answer
InitialBlocks ==
    { TextBlock(<<"a">>),
      TextBlock(<<"b", "c">>),
      ToolUseBlock("tu1", get_alerts_name, AlertsInput),
      ToolUseBlock("tu2", get_forecast_name, ForecastInput) }

ContinuationText == TextBlock(<<"d">>)

ContinuationToolUse == ToolUseBlock("tu3", get_alerts_name, OtherAlertsInput)

SeqsUpTo(S, n) == UNION { [1..k -> S] : k \in 0..n }

InitialContents == SeqsUpTo(InitialBlocks, MaxBlocks)

\* content lists the completion service may return for a continuation: none,
\* text only, a tool use first, a text followed by a tool use
ContinuationContents ==
    { <<>>,
      <<ContinuationText>>,
      <<ContinuationToolUse>>,
      <<ContinuationText, ContinuationToolUse>> }

\* CallToolResult values the session may return from call_tool
ToolResults ==
    { [isError |-> FALSE, content |-> <<TextBlock(<<"r">>)>>],
      [isError |-> TRUE, content |-> <<TextBlock(<<"e">>)>>] }

\* ways the awaited call_tool may fail: the provider answers with an error,
\* or the channel to the provider is closed
CallToolErrors == { "McpError", "ClosedResourceError" }

NoResponse == [content |-> <<>>]

NoBlock == [type |-> "none"]

-----------------------------------------------------------------------------
(* State *)

VARIABLES
    pc,                         \* position of the single flow of control
    argv,                       \* sys.argv
    exc,                        \* the exception being propagated, or "None"
    exit_status,                \* process exit status once the run is over
    client,                     \* TRUE once MCPClient() was constructed
    session,                    \* self.session
    exit_stack,                 \* self.exit_stack: entered contexts, in order
    proc,                       \* the tool-provider process
    spawn_count,                \* processes spawned so far
    initialized,                \* the handshake completed
    cleanup_count,              \* completed cleanup() calls
    stdin_eof,                  \* standard input reached its end
    stdout,                     \* the last thing printed
    query,                      \* process_query: query
    messages,                   \* process_query: messages
    available_tools,            \* process_query: available_tools
    response,                   \* process_query: response
    iter,                       \* the list the for statement iterates
    idx,                        \* blocks of iter already taken
    content,                    \* process_query: content (the loop variable)
    final_text,                 \* process_query: final_text
    assistant_message_content,  \* process_query: assistant_message_content
    outstanding,                \* call_tool requests awaiting their answer
    tool_calls,                 \* call_tool requests issued by this query
    list_calls,                 \* list_tools requests issued by this run phase
    create_log,                 \* completion calls made by this query
    last_outcome,               \* how the last finished process_query ended
    fetched,                    \* the tool list of the last list_tools answer
    line                        \* chat_loop: the line input() returned last

\* state of the tool provider (src/server/main.py) while it serves a tool call
VARIABLES
    s_pc,                       \* position of the tool function being run
    s_call,                     \* the tool call being served
    s_requests,                 \* URLs requested from the weather service
    s_reply,                    \* what the weather service did with the last request
    s_data,                     \* what make_nws_request returned last
    s_result                    \* how the tool function ended

server_vars == << s_pc, s_call, s_requests, s_reply, s_data, s_result >>

client_vars ==
    << pc, argv, exc, exit_status, client, session, exit_stack, proc,
       spawn_count, initialized, cleanup_count, stdin_eof, stdout, query,
       messages, available_tools, response, iter, idx, content, final_text,
       assistant_message_content, outstanding, tool_calls, list_calls,
       create_log, last_outcome, fetched, line >>

vars == << client_vars, server_vars >>

NoCall == [tool |-> "none"]

NoReply == [kind |-> "none"]

None == [t |-> "none"]

NoResult == [kind |-> "none"]

\* the provider before it is asked anything
server_idle ==
    /\ s_pc = "idle"
    /\ s_call = NoCall
    /\ s_requests = <<>>
    /\ s_reply = NoReply
    /\ s_data = None
    /\ s_result = NoResult

run_vars ==
    << argv, exit_status, client, session, exit_stack, proc, spawn_count,
       initialized, cleanup_count, stdin_eof >>

query_vars ==
    << query, messages, available_tools, response, iter, idx, content,
       final_text, assistant_message_content, outstanding, tool_calls,
       list_calls, create_log >>

Init ==
    /\ pc = "main"
    /\ argv \in ArgvChoices
    /\ exc = "None"
    /\ exit_status = "running"
    /\ client = FALSE
    /\ session = "None"
    /\ exit_stack = <<>>
    /\ proc = "none"
    /\ spawn_count = 0
    /\ initialized = FALSE
    /\ cleanup_count = 0
    /\ stdin_eof = FALSE
    /\ stdout = [kind |-> "none"]
    /\ query = <<>>
    /\ messages = <<>>
    /\ available_tools = <<>>
    /\ response = NoResponse
    /\ iter = <<>>
    /\ idx = 0
    /\ content = NoBlock
    /\ final_text = <<>>
    /\ assistant_message_content = <<>>
    /\ outstanding = 0
    /\ tool_calls = <<>>
    /\ list_calls = 0
    /\ create_log = <<>>
    /\ last_outcome = "none"
    /\ fetched = <<>>
    /\ line = <<>>
    /\ server_idle

-----------------------------------------------------------------------------
(* main and MCPClient.connect_to_server *)

\* main, lines 173-175: no server script argument
main_usage ==
    /\ pc = "main"
    /\ Len(argv) < 2
    /\ stdout' = [kind |-> "usage"]
    /\ exit_status' = 1
    /\ pc' = "done"
    /\ UNCHANGED << argv, exc, client, session, exit_stack, proc, spawn_count,
                    initialized, cleanup_count, stdin_eof >>
    /\ UNCHANGED query_vars
    /\ UNCHANGED last_outcome
    /\ UNCHANGED fetched
    /\ UNCHANGED line
    /\ UNCHANGED server_vars

\* main, lines 177-180: construct the client and enter the try block
main_client ==
    /\ pc = "main"
    /\ ~(Len(argv) < 2)
    /\ client' = TRUE
    /\ session' = "None"
    /\ exit_stack' = <<>>
    /\ pc' = "connect"
    /\ UNCHANGED << argv, exc, exit_status, proc, spawn_count, initialized,
                    cleanup_count, stdin_eof, stdout >>
    /\ UNCHANGED query_vars
    /\ UNCHANGED last_outcome
    /\ UNCHANGED fetched
    /\ UNCHANGED line
    /\ UNCHANGED server_vars

\* main without its finally clause: the exception ends the run at once
main_raise_target_skip == "done"

\* where an exception leaving connect_to_server or chat_loop continues:
\* the finally clause of main (lines 179-183)
main_raise_target == "finally"

\* connect_to_server, lines 30-42: choose the interpreter from the suffix
connect_to_server ==
    /\ pc = "connect"
    /\ LET server_script_path == argv[2]
           is_python == endswith(server_script_path, <<".", "p", "y">>)
           is_js == endswith(server_script_path, <<".", "j", "s">>)
       IN  IF ~(is_python \/ is_js)
           THEN /\ exc' = "ValueError"
                /\ pc' = main_raise_target
           ELSE /\ exc' = exc
                /\ pc' = "stdio"
    /\ UNCHANGED << stdout >>
    /\ UNCHANGED run_vars
    /\ UNCHANGED query_vars
    /\ UNCHANGED last_outcome
    /\ UNCHANGED fetched
    /\ UNCHANGED line
    /\ UNCHANGED server_vars

\* connect_to_server, lines 44-47: spawn the provider behind stdio_client
connect_stdio ==
    /\ pc = "stdio"
    /\ \/ /\ proc' = "live"
          /\ spawn_count' = spawn_count + 1
          /\ exit_stack' = Append(exit_stack, "stdio_client")
          /\ pc' = "session"
          /\ exc' = exc
       \/ /\ exc' = "OSError"
          /\ pc' = main_raise_target
          /\ UNCHANGED << proc, spawn_count, exit_stack >>
    /\ UNCHANGED << argv, exit_status, client, session, initialized,
                    cleanup_count, stdin_eof, stdout >>
    /\ UNCHANGED query_vars
    /\ UNCHANGED last_outcome
    /\ UNCHANGED fetched
    /\ UNCHANGED line
    /\ UNCHANGED server_vars

\* connect_to_server, lines 48-50: open the ClientSession on the two streams
connect_session ==
    /\ pc = "session"
    /\ session' = "ClientSession"
    /\ exit_stack' = Append(exit_stack, "ClientSession")
    /\ pc' = "initialize"
    /\ UNCHANGED << argv, exc, exit_status, client, proc, spawn_count,
                    initialized, cleanup_count, stdin_eof, stdout >>
    /\ UNCHANGED query_vars
    /\ UNCHANGED last_outcome
    /\ UNCHANGED fetched
    /\ UNCHANGED line
    /\ UNCHANGED server_vars

\* a handshake failure that is ignored, the connection going on
handshake_raise_target_ignore == "connect_list"

\* line 52 stands in no try statement of connect_to_server: an exception of
\* the awaited initialize leaves connect_to_server
handshake_raise_target == main_raise_target

\* connect_to_server, line 52: the handshake
connect_initialize ==
    /\ pc = "initialize"
    /\ \/ /\ initialized' = TRUE
          /\ pc' = "connect_list"
          /\ exc' = exc
       \/ /\ exc' = "McpError"
          /\ pc' = handshake_raise_target
          /\ UNCHANGED initialized
    /\ UNCHANGED << argv, exit_status, client, session, exit_stack, proc,
                    spawn_count, cleanup_count, stdin_eof, stdout >>
    /\ UNCHANGED query_vars
    /\ UNCHANGED last_outcome
    /\ UNCHANGED fetched
    /\ UNCHANGED line
    /\ UNCHANGED server_vars

\* connect_to_server, lines 55-61: fetch and print the tool names
connect_list_tools ==
    /\ pc = "connect_list"
    /\ list_calls' = list_calls + 1
    /\ \/ \E tools \in Catalogs :
             /\ fetched' = tools
             /\ stdout' = [kind |-> "tools",
                           names |-> [i \in 1..Len(tools) |-> tools[i].name]]
             /\ pc' = "chat_loop"
             /\ exc' = exc
       \/ /\ exc' = "McpError"
          /\ pc' = main_raise_target
          /\ UNCHANGED << stdout, fetched >>
    /\ UNCHANGED run_vars
    /\ UNCHANGED << query, messages, available_tools, response, iter, idx,
                    content, final_text, assistant_message_content, outstanding, tool_calls, create_log >>
    /\ UNCHANGED last_outcome
    /\ UNCHANGED line
    /\ UNCHANGED server_vars

\* MCPClient.cleanup (lines 167-169), run by main's finally clause: the exit
\* stack leaves its contexts in reverse order; leaving stdio_client ends the
\* provider process.  Then main returns or re-raises (line 183).
cleanup ==
    /\ pc = "finally"
    /\ exit_stack' = <<>>
    /\ proc' = IF \E i \in 1..Len(exit_stack) : exit_stack[i] = "stdio_client"
               THEN "terminated"
               ELSE proc
    /\ cleanup_count' = cleanup_count + 1
    /\ exit_status' = IF exc = "None" THEN 0 ELSE 1
    /\ pc' = "done"
    /\ UNCHANGED << argv, exc, client, session, spawn_count, initialized,
                    stdin_eof, stdout >>
    /\ UNCHANGED query_vars
    /\ UNCHANGED last_outcome
    /\ UNCHANGED fetched
    /\ UNCHANGED line
    /\ UNCHANGED server_vars

-----------------------------------------------------------------------------
(* Conversation values built by MCPClient.process_query *)

\* a conversation kept on the client and extended by every query
seed_messages_keep(q) ==
    Append(messages, [role |-> "user", content |-> [kind |-> "str", text |-> q]])

\* lines 70-75: the conversation a query starts with
seed_messages(q) ==
    << [role |-> "user", content |-> [kind |-> "str", text |-> q]] >>

\* tool schemas built from the tool list fetched before, not from the one
\* just received
tool_schemas_cached(tools) ==
    [i \in 1..Len(fetched) |->
        [name |-> fetched[i].name,
         description |-> fetched[i].description,
         input_schema |-> fetched[i].inputSchema]]

\* lines 79-86: the tool schemas handed to the completion service
tool_schemas(tools) ==
    [i \in 1..Len(tools) |->
        [name |-> tools[i].name,
         description |-> tools[i].description,
         input_schema |-> tools[i].inputSchema]]

\* a trace line that leaves the arguments out
trace_line_name_only(tool_name, tool_args) ==
    <<"[", "C", "a", "l", "l", "i", "n", "g", " ", "t", "o", "o", "l", " ">>
        \o tool_name \o <<"]">>

\* line 113: the trace line
trace_line(tool_name, tool_args) ==
    <<"[", "C", "a", "l", "l", "i", "n", "g", " ", "t", "o", "o", "l", " ">>
        \o tool_name
        \o <<" ", "w", "i", "t", "h", " ", "a", "r", "g", "s", " ">>
        \o dict_str(tool_args)
        \o <<"]">>

\* an assistant message holding a copy of the accumulator taken before the
\* tool-use block is added to it
assistant_message_snapshot ==
    [role |-> "assistant",
     content |-> [kind |-> "list", blocks |-> assistant_message_content]]

\* lines 117-122: the assistant message; its content is the list object
\* assistant_message_content itself, not a copy of it
assistant_message ==
    [role |-> "assistant", content |-> [kind |-> "ref"]]

\* a tool result sent in the assistant role
tool_result_message_as_assistant(block, result) ==
    [role |-> "assistant",
     content |-> [kind |-> "list",
                  blocks |-> << [type |-> "tool_result",
                                 tool_use_id |-> block.id,
                                 content |-> result.content] >>]]

\* lines 124-135: the user message carrying the tool result
tool_result_message(block, result) ==
    [role |-> "user",
     content |-> [kind |-> "list",
                  blocks |-> << [type |-> "tool_result",
                                 tool_use_id |-> block.id,
                                 content |-> result.content] >>]]

\* the messages as the completion service receives them: a reference to
\* assistant_message_content is sent as that list's elements at the time of
\* the call
wire(msgs, acc) ==
    [i \in 1..Len(msgs) |->
        IF msgs[i].content.kind = "ref"
        THEN [role |-> msgs[i].role,
              content |-> [kind |-> "list", blocks |-> acc]]
        ELSE msgs[i]]

\* a loop that takes the blocks from the end of the list
current_block_reversed(blocks, i) == blocks[Len(blocks) + 1 - i]

\* line 102: the block the for statement hands out at its i-th iteration
current_block(blocks, i) == blocks[i]

\* a loop that also works through the blocks of every continuation
loop_iterable_follow(blocks, continuation) == blocks \o continuation

\* line 138 rebinds response; the for statement of line 102 keeps iterating
\* the list it was started on
loop_iterable(blocks, continuation) == blocks

\* the output joined without a separator
joined_text_concat(parts) == join(<<>>, parts)

\* line 147
joined_text(parts) == join(<<NL>>, parts)

\* a chat loop without its except clause: the exception leaves the loop
query_raise_target_leave == "finally"

\* where an exception raised while reading or serving a query continues:
\* the except clause of chat_loop (lines 164-165)
query_raise_target == "except"

\* a call_tool failure that is swallowed, the loop going on with the blocks
call_tool_raise_target_swallow == "pq_loop"

\* line 112 stands in no try statement of process_query: an exception of the
\* awaited call_tool leaves process_query
call_tool_raise_target == query_raise_target

-----------------------------------------------------------------------------
(* MCPClient.chat_loop *)

\* chat_loop, lines 151-152
chat_loop ==
    /\ pc = "chat_loop"
    /\ stdout' = [kind |-> "banner"]
    /\ pc' = "input"
    /\ UNCHANGED exc
    /\ UNCHANGED run_vars
    /\ UNCHANGED query_vars
    /\ UNCHANGED last_outcome
    /\ UNCHANGED fetched
    /\ UNCHANGED line
    /\ UNCHANGED server_vars

\* chat_loop, lines 156-159: show the prompt, read a line, strip it, leave
\* the loop on the sentinel
chat_loop_input ==
    /\ pc = "input"
    /\ ~stdin_eof
    /\ stdout' = [kind |-> "prompt"]
    /\ \E typed \in InputLines :
          /\ line' = typed
          /\ query' = strip(typed)
          /\ pc' = IF lower(strip(typed)) = <<"q", "u", "i", "t">>
                   THEN "finally"
                   ELSE "process_query"
    /\ UNCHANGED exc
    /\ UNCHANGED run_vars
    /\ UNCHANGED << messages, available_tools, response, iter, idx, content,
                    final_text, assistant_message_content, outstanding,
                    tool_calls, list_calls, create_log >>
    /\ UNCHANGED last_outcome
    /\ UNCHANGED fetched
    /\ UNCHANGED server_vars

\* chat_loop, line 156, no line left to read: input() raises EOFError
chat_loop_eof ==
    /\ pc = "input"
    /\ stdout' = [kind |-> "prompt"]
    /\ stdin_eof' = TRUE
    /\ exc' = "EOFError"
    /\ pc' = query_raise_target
    /\ UNCHANGED << argv, exit_status, client, session, exit_stack, proc,
                    spawn_count, initialized, cleanup_count >>
    /\ UNCHANGED query_vars
    /\ UNCHANGED last_outcome
    /\ UNCHANGED fetched
    /\ UNCHANGED line
    /\ UNCHANGED server_vars

\* chat_loop, lines 164-165: report the exception and go on with the loop
chat_loop_except ==
    /\ pc = "except"
    /\ stdout' = [kind |-> "error", exc |-> exc]
    /\ exc' = "None"
    /\ pc' = "input"
    /\ UNCHANGED run_vars
    /\ UNCHANGED query_vars
    /\ last_outcome' = IF exc = "EOFError" THEN last_outcome ELSE "raised"
    /\ UNCHANGED fetched
    /\ UNCHANGED line
    /\ UNCHANGED server_vars

-----------------------------------------------------------------------------
(* MCPClient.process_query *)

\* lines 64-77: a new call frame, whose other locals are not bound yet; seed
\* the conversation and ask the session for the tool list
process_query ==
    /\ pc = "process_query"
    /\ messages' = seed_messages(query)
    /\ available_tools' = <<>>
    /\ response' = NoResponse
    /\ iter' = <<>>
    /\ idx' = 0
    /\ content' = NoBlock
    /\ final_text' = <<>>
    /\ assistant_message_content' = <<>>
    /\ list_calls' = 1
    /\ tool_calls' = <<>>
    /\ create_log' = <<>>
    /\ pc' = "pq_list"
    /\ UNCHANGED << exc, stdout, query, outstanding >>
    /\ UNCHANGED run_vars
    /\ UNCHANGED last_outcome
    /\ UNCHANGED fetched
    /\ UNCHANGED line
    /\ UNCHANGED server_vars

\* lines 77-86: the tool list arrives, or the session call fails
process_query_list_tools ==
    /\ pc = "pq_list"
    /\ \/ \E tools \in Catalogs :
             /\ fetched' = tools
             /\ response' = [tools |-> tools]
             /\ available_tools' = tool_schemas(tools)
             /\ pc' = "pq_create"
             /\ exc' = exc
       \/ /\ exc' = "McpError"
          /\ pc' = query_raise_target
          /\ UNCHANGED << response, available_tools, fetched >>
    /\ UNCHANGED stdout
    /\ UNCHANGED run_vars
    /\ UNCHANGED << query, messages, iter, idx, content, final_text,
                    assistant_message_content, outstanding, tool_calls,
                    list_calls, create_log >>
    /\ UNCHANGED last_outcome
    /\ UNCHANGED line
    /\ UNCHANGED server_vars

\* lines 91-102: the first completion call; the for statement starts on its
\* content list
process_query_create ==
    /\ pc = "pq_create"
    /\ \/ \E c \in InitialContents :
             /\ create_log' = Append(create_log,
                    [messages |-> wire(messages, assistant_message_content),
                     tools |-> available_tools, ok |-> TRUE, content |-> c])
             /\ response' = [content |-> c]
             /\ final_text' = <<>>
             /\ assistant_message_content' = <<>>
             /\ iter' = c
             /\ idx' = 0
             /\ pc' = "pq_loop"
             /\ exc' = exc
       \/ /\ create_log' = Append(create_log,
                    [messages |-> wire(messages, assistant_message_content),
                     tools |-> available_tools, ok |-> FALSE, content |-> <<>>])
          /\ exc' = "APIError"
          /\ pc' = query_raise_target
          /\ UNCHANGED << response, final_text, assistant_message_content,
                          iter, idx >>
    /\ UNCHANGED stdout
    /\ UNCHANGED run_vars
    /\ UNCHANGED << query, messages, available_tools, content, outstanding, tool_calls, list_calls >>
    /\ UNCHANGED last_outcome
    /\ UNCHANGED fetched
    /\ UNCHANGED line
    /\ UNCHANGED server_vars

\* lines 102-105: the next block is a text block
process_query_text ==
    /\ pc = "pq_loop"
    /\ idx < Len(iter)
    /\ LET block == current_block(iter, idx + 1)
       IN  /\ block.type = "text"
           /\ content' = block
           /\ final_text' = Append(final_text, block.text)
           /\ assistant_message_content' =
                  Append(assistant_message_content, block)
    /\ idx' = idx + 1
    /\ UNCHANGED << pc, exc, stdout >>
    /\ UNCHANGED run_vars
    /\ UNCHANGED << query, messages, available_tools, response, iter, outstanding, tool_calls, list_calls, create_log >>
    /\ UNCHANGED last_outcome
    /\ UNCHANGED fetched
    /\ UNCHANGED line
    /\ UNCHANGED server_vars

\* a tool-use step that puts the assistant message into the conversation
\* before it sends call_tool
process_query_tool_use_append_first ==
    /\ pc = "pq_loop"
    /\ idx < Len(iter)
    /\ LET block == current_block(iter, idx + 1)
       IN  /\ block.type = "tool_use"
           /\ content' = block
           /\ assistant_message_content' =
                  Append(assistant_message_content, block)
           /\ tool_calls' = Append(tool_calls,
                  [name |-> block.name, arguments |-> block.input])
    /\ messages' = Append(messages, assistant_message)
    /\ outstanding' = outstanding + 1
    /\ idx' = idx + 1
    /\ pc' = "pq_call"
    /\ UNCHANGED << exc, stdout >>
    /\ UNCHANGED run_vars
    /\ UNCHANGED << query, available_tools, response, iter, final_text,
                    list_calls, create_log >>
    /\ UNCHANGED << last_outcome, fetched, line >>
    /\ UNCHANGED server_vars

\* lines 102, 107-112: the next block is a tool use; send call_tool
process_query_tool_use ==
    /\ pc = "pq_loop"
    /\ idx < Len(iter)
    /\ LET block == current_block(iter, idx + 1)
       IN  /\ block.type = "tool_use"
           /\ content' = block
           /\ tool_calls' = Append(tool_calls,
                  [name |-> block.name, arguments |-> block.input])
    /\ outstanding' = outstanding + 1
    /\ idx' = idx + 1
    /\ pc' = "pq_call"
    /\ UNCHANGED << exc, stdout >>
    /\ UNCHANGED run_vars
    /\ UNCHANGED << query, messages, available_tools, response, iter,
                    final_text, assistant_message_content, list_calls,
                    create_log >>
    /\ UNCHANGED last_outcome
    /\ UNCHANGED fetched
    /\ UNCHANGED line
    /\ UNCHANGED server_vars

\* lines 112-135: the answer to call_tool arrives, or the call fails
process_query_call_tool ==
    /\ pc = "pq_call"
    /\ outstanding' = outstanding - 1
    /\ \/ \E result \in ToolResults :
             /\ final_text' = Append(final_text,
                    trace_line(content.name, content.input))
             /\ assistant_message_content' =
                    Append(assistant_message_content, content)
             /\ messages' = messages \o
                    << assistant_message, tool_result_message(content, result) >>
             /\ pc' = "pq_continue"
             /\ exc' = exc
       \/ \E e \in CallToolErrors :
             /\ exc' = e
             /\ pc' = call_tool_raise_target
             /\ UNCHANGED << final_text, assistant_message_content, messages >>
    /\ UNCHANGED stdout
    /\ UNCHANGED run_vars
    /\ UNCHANGED << query, available_tools, response, iter, idx, content, tool_calls, list_calls, create_log >>
    /\ UNCHANGED last_outcome
    /\ UNCHANGED fetched
    /\ UNCHANGED line
    /\ UNCHANGED server_vars

\* lines 138-145: the continuation completion call and the text of its first
\* content block
process_query_continue ==
    /\ pc = "pq_continue"
    /\ \/ \E c \in ContinuationContents :
             /\ create_log' = Append(create_log,
                    [messages |-> wire(messages, assistant_message_content),
                     tools |-> available_tools, ok |-> TRUE, content |-> c])
             /\ response' = [content |-> c]
             /\ iter' = loop_iterable(iter, c)
             /\ IF c = <<>>
                THEN /\ exc' = "IndexError"
                     /\ pc' = query_raise_target
                     /\ UNCHANGED final_text
                ELSE IF c[1].type # "text"
                THEN /\ exc' = "AttributeError"
                     /\ pc' = query_raise_target
                     /\ UNCHANGED final_text
                ELSE /\ final_text' = Append(final_text, c[1].text)
                     /\ pc' = "pq_loop"
                     /\ exc' = exc
       \/ /\ create_log' = Append(create_log,
                    [messages |-> wire(messages, assistant_message_content),
                     tools |-> available_tools, ok |-> FALSE, content |-> <<>>])
          /\ exc' = "APIError"
          /\ pc' = query_raise_target
          /\ UNCHANGED << response, iter, final_text >>
    /\ UNCHANGED stdout
    /\ UNCHANGED run_vars
    /\ UNCHANGED << query, messages, available_tools, idx, content,
                    assistant_message_content, outstanding, tool_calls,
                    list_calls >>
    /\ UNCHANGED last_outcome
    /\ UNCHANGED fetched
    /\ UNCHANGED line
    /\ UNCHANGED server_vars

\* lines 102, 147 and chat_loop lines 161-162: the list is used up; return
\* the joined output, which chat_loop prints
process_query_return ==
    /\ pc = "pq_loop"
    /\ ~(idx < Len(iter))
    /\ LET returned == joined_text(final_text)
       IN  stdout' = [kind |-> "response", returned |-> returned,
                      text |-> <<NL>> \o returned]
    /\ pc' = "input"
    /\ UNCHANGED exc
    /\ UNCHANGED run_vars
    /\ UNCHANGED query_vars
    /\ last_outcome' = "returned"
    /\ UNCHANGED fetched
    /\ UNCHANGED line
    /\ UNCHANGED server_vars

-----------------------------------------------------------------------------
(* The program *)

Next ==
    \/ main_usage
    \/ main_client
    \/ connect_to_server
    \/ connect_stdio
    \/ connect_session
    \/ connect_initialize
    \/ connect_list_tools
    \/ cleanup
    \/ chat_loop
    \/ chat_loop_input
    \/ chat_loop_eof
    \/ chat_loop_except
    \/ process_query
    \/ process_query_list_tools
    \/ process_query_create
    \/ process_query_text
    \/ process_query_tool_use
    \/ process_query_call_tool
    \/ process_query_continue
    \/ process_query_return

Spec == Init /\ [][Next]_vars

TypeOK ==
    /\ pc \in { "main", "connect", "stdio", "session", "initialize",
                "connect_list", "chat_loop", "input", "process_query",
                "pq_list", "pq_create", "pq_loop", "pq_call", "pq_continue",
                "except", "finally", "done" }
    /\ outstanding \in 0..1
    /\ cleanup_count \in 0..1
    /\ idx \in 0..Len(iter)

-----------------------------------------------------------------------------
(* The tool provider, src/server/main.py *)

Digits == <<"0", "1", "2", "3", "4", "5", "6", "7", "8", "9">>

\* str() of an integer in 0..99
int_str(n) ==
    IF n < 10 THEN <<Digits[n + 1]>>
    ELSE <<Digits[(n \div 10) + 1], Digits[(n % 10) + 1]>>

\* str() of a float with a whole value, as an f-string prints it
float_str(n) == int_str(n) \o <<".", "0">>

WEATHER_API_BASE ==
    << "h", "t", "t", "p", "s", ":", "/", "/", "a", "p", "i", ".", "w", "e",
       "a", "t", "h", "e", "r", ".", "g", "o", "v" >>

USER_AGENT ==
    << "w", "e", "a", "t", "h", "e", "r", "-", "a", "p", "p", "/", "1", ".",
       "0" >>

\* the value of the Accept header
Accept ==
    << "a", "p", "p", "l", "i", "c", "a", "t", "i", "o", "n", "/", "g", "e",
       "o", "+", "j", "s", "o", "n" >>

\* timeout=30.0 of client.get
request_timeout == 30

\* the number of periods get_forecast shows, periods[:5]
shown_limit == 5

\* The texts of the provider are sequences of characters; a character outside
\* ASCII is written as "u" followed by its code point in hexadecimal.

\* what get_alerts returns when it has no usable answer
alerts_unavailable ==
    << "u30a2", "u30e9", "u30fc", "u30c8", "u3092", "u53d6", "u5f97",
       "u3067", "u304d", "u306a", "u3044", "u3001", "u307e", "u305f",
       "u306f", "u30a2", "u30e9", "u30fc", "u30c8", "u304c", "u898b",
       "u3064", "u304b", "u3089", "u306a", "u3044" >>

\* what get_alerts returns when the answer lists no alert
no_active_alerts ==
    << "u3053", "u306e", "u72b6", "u614b", "u306b", "u5bfe", "u3059",
       "u308b", "u30a2", "u30af", "u30c6", "u30a3", "u30d6", "u306a",
       "u30a2", "u30e9", "u30fc", "u30c8", "u306f", "u3042", "u308a",
       "u307e", "u305b", "u3093" >>

\* what get_forecast returns when the points request gave nothing
forecast_unavailable ==
    << "u3053", "u306e", "u5834", "u6240", "u306e", "u4e88", "u5831",
       "u30c7", "u30fc", "u30bf", "u3092", "u53d6", "u5f97", "u3067",
       "u304d", "u307e", "u305b", "u3093" >>

\* what get_forecast returns when the forecast request gave nothing
detail_unavailable ==
    << "u8a73", "u7d30", "u306a", "u4e88", "u6e2c", "u3092", "u53d6",
       "u5f97", "u3067", "u304d", "u306a", "u3044" >>

\* "\n---\n", the text both tools put between entries
entry_separator == << "\n", "-", "-", "-", "\n" >>

\* Python values the provider handles: None, a dict [t |-> "dict", d |-> d]
\* whose d is a record (<<>> for {}), a list [t |-> "list", xs |-> xs]
dict(d) == [t |-> "dict", d |-> d]

list(xs) == [t |-> "list", xs |-> xs]

\* "not v" of Python
falsy(v) ==
    CASE v.t = "none" -> TRUE
      [] v.t = "dict" -> DOMAIN v.d = {}
      [] v.t = "list" -> v.xs = <<>>

\* "k in d" of a dict
has_key(d, k) == k \in DOMAIN d

\* d.get(k, default)
dict_get(d, k, default) == IF has_key(d, k) THEN d[k] ELSE default

\* how a tool function ends
returned(text) == [kind |-> "return", text |-> text]

raised(e) == [kind |-> "raise", exc |-> e]

\* the request make_nws_request sends for a URL
nws_request(url) ==
    [url |-> url,
     headers |-> [User_Agent |-> USER_AGENT, Accept |-> Accept],
     timeout |-> request_timeout]

\* what the weather service does with a request
ok(body) == [kind |-> "ok", body |-> body]

\* exchanges that end in the except branch of make_nws_request: client.get
\* raises, raise_for_status raises, response.json() raises
Failures ==
    << [kind |-> "network_error"], [kind |-> "http_error"],
       [kind |-> "not_json"] >>

\* make_nws_request: the parsed body of a successful exchange, None otherwise
make_nws_request(reply) == IF reply.kind = "ok" THEN reply.body ELSE None

(* Inputs of the tools and answers of the weather service *)

\* longest feature list the weather service answers with
MaxFeatures == 2

\* most forecast periods the weather service answers with
MaxPeriods == 6

States == { <<"C", "A">>, <<"N", "Y">>, <<"T", "X">>, <<"W", "A">> }

Coordinates ==
    { [latitude |-> 1, longitude |-> 2], [latitude |-> 3, longitude |-> 4],
      [latitude |-> 47, longitude |-> 12] }

\* a feature with every property format_alert reads
FullAlert ==
    [properties |->
        [event |-> << "F", "l", "o", "o", "d" >>,
         areaDesc |-> << "C", "o", "a", "s", "t" >>,
         severity |-> << "S", "e", "v", "e", "r", "e" >>,
         description |-> << "R", "a", "i", "n" >>,
         instruction |-> << "L", "e", "a", "v", "e" >>]]

\* a feature whose properties lack all but the event
SparseAlert == [properties |-> [event |-> << "W", "i", "n", "d" >>]]

\* a feature without "properties"
BareAlert == [id |-> <<"x">>]

Features == { FullAlert, SparseAlert, BareAlert }

FeatureLists == UNION { [1..k -> Features] : k \in 0..MaxFeatures }

\* answers to the alerts request other than a feature list: the failures, {},
\* an object without "features", an object whose "features" is null
AlertsReplies ==
    Failures \o
    << ok(dict(<<>>)),
       ok(dict([type |-> <<"x">>])),
       ok(dict([features |-> None])) >>

forecast_url ==
    << "h", "t", "t", "p", "s", ":", "/", "/", "a", "p", "i", ".", "w", "e",
       "a", "t", "h", "e", "r", ".", "g", "o", "v", "/", "g", "r", "i", "d",
       "p", "o", "i", "n", "t", "s", "/", "X", "/", "1", ",", "2", "/", "f",
       "o", "r", "e", "c", "a", "s", "t" >>

\* answers to the points request: the failures, {}, an object without
\* "properties", properties without "forecast", properties with the URL
PointsReplies ==
    Failures \o
    << ok(dict(<<>>)),
       ok(dict([type |-> <<"x">>])),
       ok(dict([properties |-> [gridId |-> <<"X">>]])),
       ok(dict([properties |-> [forecast |-> forecast_url]])) >>

\* the i-th forecast period of the weather service
Period(i) ==
    [name |-> <<"P", Digits[i + 1]>>,
     temperature |-> 60 + i,
     temperatureUnit |-> <<"F">>,
     windSpeed |-> <<Digits[i + 1]>> \o << " ", "m", "p", "h" >>,
     windDirection |-> <<"N">>,
     detailedForecast |-> <<"f", Digits[i + 1]>>]

Periods(n) == [i \in 1..n |-> Period(i)]

\* a period without the fields after the name
BarePeriod == [name |-> <<"P", "0">>]

\* answers to the forecast request: the failures, {}, an object without
\* "properties", properties without "periods", a period lacking fields, and
\* the first n periods for every n up to MaxPeriods
ForecastReplies ==
    Failures \o
    << ok(dict(<<>>)),
       ok(dict([type |-> <<"x">>])),
       ok(dict([properties |-> [units |-> <<"u", "s">>]])),
       ok(dict([properties |-> [periods |-> <<BarePeriod>>]])) >> \o
    [k \in 1..(MaxPeriods + 1) |->
        ok(dict([properties |-> [periods |-> Periods(k - 1)]]))]

(* format_alert and get_alerts *)

format_alert(feature) ==
    LET props == feature.properties
    IN  << "\n", "E", "v", "e", "n", "t", ":", " " >>
            \o dict_get(props, "event", << "U", "n", "k", "n", "o", "w", "n" >>)
        \o << "\n", "A", "r", "e", "a", ":", " " >>
            \o dict_get(props, "areaDesc", << "U", "n", "k", "n", "o", "w", "n" >>)
        \o << "\n", "S", "e", "v", "e", "r", "i", "t", "y", ":", " " >>
            \o dict_get(props, "severity", << "U", "n", "k", "n", "o", "w", "n" >>)
        \o << "\n", "D", "e", "s", "c", "r", "i", "p", "t", "i", "o", "n", ":",
              " " >>
            \o dict_get(props, "description",
                   << "N", "o", " ", "d", "e", "s", "c", "r", "i", "p", "t", "i", "o", "n",
                      " ", "a", "v", "a", "i", "l", "a", "b", "l", "e" >>)
        \o << "\n", "I", "n", "s", "t", "r", "u", "c", "t", "i", "o", "n", "s",
              ":", " " >>
            \o dict_get(props, "instruction",
                   << "N", "o", " ", "s", "p", "e", "c", "i", "f", "i", "c", " ", "i", "n",
                      "s", "t", "r", "u", "c", "t", "i", "o", "n", "s", " ", "p", "r", "o",
                      "v", "i", "d", "e", "d" >>)
        \o <<NL>>

\* line 62: not response_data or "features" not in response_data
alerts_missing(response_data) ==
    falsy(response_data) \/ ~has_key(response_data.d, "features")

alerts_empty_never(response_data) == FALSE

\* line 65: not response_data["features"]
alerts_empty(response_data) == falsy(response_data.d.features)

\* get_alerts after make_nws_request has returned response_data
get_alerts_result(response_data) ==
    IF alerts_missing(response_data) THEN returned(alerts_unavailable)
    ELSE IF alerts_empty(response_data) THEN returned(no_active_alerts)
    ELSE LET value == response_data.d.features
         IN  IF value.t # "list" THEN raised("TypeError")
             ELSE IF \E i \in 1..Len(value.xs) :
                         ~has_key(value.xs[i], "properties")
                  THEN raised("KeyError")
             ELSE returned(join(entry_separator,
                      [i \in 1..Len(value.xs) |-> format_alert(value.xs[i])]))

alerts_url(state) ==
    WEATHER_API_BASE
        \o << "/", "a", "l", "e", "r", "t", "s", "/", "a", "c", "t", "i", "v", "e",
              "/", "a", "r", "e", "a", "/" >>
        \o state

\* get_alerts is called: it sends the alerts request
get_alerts ==
    /\ s_pc \in { "idle", "done" }
    /\ \E state \in States :
          /\ s_call' = [tool |-> "get_alerts", state |-> state]
          /\ s_requests' = <<nws_request(alerts_url(state))>>
    /\ s_pc' = "alerts"
    /\ s_reply' = NoReply
    /\ s_data' = None
    /\ s_result' = NoResult
    /\ UNCHANGED client_vars

get_alerts_answered(reply) ==
    /\ s_reply' = reply
    /\ s_data' = make_nws_request(reply)
    /\ s_result' = get_alerts_result(make_nws_request(reply))
    /\ s_pc' = "done"
    /\ UNCHANGED << s_call, s_requests >>
    /\ UNCHANGED client_vars

\* the alerts request is over and get_alerts ends
get_alerts_response ==
    /\ s_pc = "alerts"
    /\ \/ \E i \in 1..Len(AlertsReplies) : get_alerts_answered(AlertsReplies[i])
       \/ \E features \in FeatureLists :
             get_alerts_answered(ok(dict([features |-> list(features)])))

(* get_forecast *)

points_url(latitude, longitude) ==
    WEATHER_API_BASE
        \o << "/", "p", "o", "i", "n", "t", "s", "/" >>
        \o float_str(latitude) \o <<",">> \o float_str(longitude)

Min(a, b) == IF a < b THEN a ELSE b

shown_periods_all(periods) == periods

\* periods[:5]
shown_periods(periods) == SubSeq(periods, 1, Min(Len(periods), shown_limit))

PeriodKeys ==
    { "name", "temperature", "temperatureUnit", "windSpeed", "windDirection",
      "detailedForecast" }

\* the f-string of lines 102-107
format_period(period) ==
    <<NL>> \o period.name
        \o << ":", "\n", "T", "e", "m", "p", "e", "r", "a", "t", "u", "r", "e",
              ":", " " >>
        \o int_str(period.temperature) \o << "u00b0" >> \o period.temperatureUnit
        \o << "\n", "W", "i", "n", "d", ":", " " >>
        \o period.windSpeed \o <<" ">> \o period.windDirection
        \o << "\n", "F", "o", "r", "e", "c", "a", "s", "t", ":", " " >>
        \o period.detailedForecast
        \o <<NL>>

\* get_forecast is called: it sends the points request
get_forecast ==
    /\ s_pc \in { "idle", "done" }
    /\ \E c \in Coordinates :
          /\ s_call' = [tool |-> "get_forecast", latitude |-> c.latitude,
                        longitude |-> c.longitude]
          /\ s_requests' = <<nws_request(points_url(c.latitude, c.longitude))>>
    /\ s_pc' = "points"
    /\ s_reply' = NoReply
    /\ s_data' = None
    /\ s_result' = NoResult
    /\ UNCHANGED client_vars

\* the points request is over: get_forecast ends or sends the forecast request
get_forecast_points ==
    /\ s_pc = "points"
    /\ \E i \in 1..Len(PointsReplies) :
          LET points_response_data == make_nws_request(PointsReplies[i])
          IN  /\ s_reply' = PointsReplies[i]
              /\ s_data' = points_response_data
              /\ IF falsy(points_response_data)
                 THEN /\ s_result' = returned(forecast_unavailable)
                      /\ s_pc' = "done"
                      /\ UNCHANGED s_requests
                 ELSE IF \/ ~has_key(points_response_data.d, "properties")
                         \/ ~has_key(points_response_data.d.properties,
                                     "forecast")
                 THEN /\ s_result' = raised("KeyError")
                      /\ s_pc' = "done"
                      /\ UNCHANGED s_requests
                 ELSE /\ s_requests' =
                             Append(s_requests,
                                 nws_request(
                                     points_response_data.d.properties.forecast))
                      /\ s_pc' = "forecast"
                      /\ UNCHANGED s_result
    /\ UNCHANGED s_call
    /\ UNCHANGED client_vars

\* get_forecast after the second make_nws_request has returned
get_forecast_result(forecast_response_data) ==
    IF falsy(forecast_response_data) THEN returned(detail_unavailable)
    ELSE IF \/ ~has_key(forecast_response_data.d, "properties")
            \/ ~has_key(forecast_response_data.d.properties, "periods")
    THEN raised("KeyError")
    ELSE LET periods == forecast_response_data.d.properties.periods
             shown == shown_periods(periods)
         IN  IF \E i \in 1..Len(shown) : ~(PeriodKeys \subseteq DOMAIN shown[i])
             THEN raised("KeyError")
             ELSE returned(join(entry_separator,
                      [i \in 1..Len(shown) |-> format_period(shown[i])]))

\* the forecast request is over and get_forecast ends
get_forecast_periods ==
    /\ s_pc = "forecast"
    /\ \E i \in 1..Len(ForecastReplies) :
          /\ s_reply' = ForecastReplies[i]
          /\ s_data' = make_nws_request(ForecastReplies[i])
          /\ s_result' = get_forecast_result(make_nws_request(ForecastReplies[i]))
    /\ s_pc' = "done"
    /\ UNCHANGED << s_call, s_requests >>
    /\ UNCHANGED client_vars

\* the provider alone, before any client has started
ServerInit ==
    /\ Init
    /\ argv = <<ProgName>>

ServerNext ==
    \/ get_alerts
    \/ get_alerts_response
    \/ get_forecast
    \/ get_forecast_points
    \/ get_forecast_periods

ServerSpec == ServerInit /\ [][ServerNext]_vars

ServerTypeOK ==
    /\ s_pc \in { "idle", "alerts", "points", "forecast", "done" }
    /\ s_result.kind \in { "none", "return", "raise" }
    /\ Len(s_requests) \in 0..2

-----------------------------------------------------------------------------
(* Vocabulary of the properties *)

QueryPcs ==
    { "process_query", "pq_list", "pq_create", "pq_loop", "pq_call",
      "pq_continue" }

\* process_query has just returned and its result was printed
Responded == stdout.kind = "response"

\* the content list of the first completion answer of the current query
InitialContent == create_log[1].content

only_text(c) == \A i \in 1..Len(c) : c[i].type = "text"

texts(c) == [i \in 1..Len(c) |-> c[i].text]

tool_uses(c) == SelectSeq(c, LAMBDA b : b.type = "tool_use")

requests(c) ==
    [i \in 1..Len(tool_uses(c)) |->
        [name |-> tool_uses(c)[i].name, arguments |-> tool_uses(c)[i].input]]

RECURSIVE Concatenation(_)
Concatenation(parts) ==
    IF parts = <<>> THEN <<>> ELSE Head(parts) \o Concatenation(Tail(parts))

RECURSIVE NewlineSeparated(_)
NewlineSeparated(parts) ==
    IF Len(parts) = 0 THEN <<>>
    ELSE IF Len(parts) = 1 THEN parts[1]
    ELSE NewlineSeparated(SubSeq(parts, 1, Len(parts) - 1))
             \o <<NL>> \o parts[Len(parts)]

Contains(s, sub) ==
    \E i \in 0..(Len(s) - Len(sub)) : SubSeq(s, i + 1, i + Len(sub)) = sub

ExpectedTrace(block) ==
    <<"[", "C", "a", "l", "l", "i", "n", "g", " ", "t", "o", "o", "l", " ">>
        \o block.name
        \o <<" ", "w", "i", "t", "h", " ", "a", "r", "g", "s", " ">>
        \o dict_str(block.input)
        \o <<"]">>

\* the script path has neither the suffix .py nor the suffix .js
UnrecognizedSuffix(path) ==
    LET n == Len(path)
    IN  ~( /\ n >= 3
           /\ path[n - 2] = "."
           /\ << path[n - 1], path[n] >> \in { <<"p", "y">>, <<"j", "s">> } )

SessionKept ==
    UNCHANGED << session, exit_stack, proc, initialized, cleanup_count,
                 exit_status >>

-----------------------------------------------------------------------------
(* Properties *)

\* C1 as stated: when the first completion answer holds only text blocks,
\* process_query issues no call_tool and returns the plain concatenation of
\* the blocks' texts.
C1_ReturnsConcatenation ==
    (Responded /\ only_text(InitialContent)) =>
        /\ tool_calls = <<>>
        /\ stdout.returned = Concatenation(texts(InitialContent))

\* C1 amended: when the first completion answer holds only text blocks,
\* process_query issues no call_tool and returns the blocks' texts in order
\* with one newline between consecutive texts.
C1_ReturnsTextsJoinedByNewline ==
    (Responded /\ only_text(InitialContent)) =>
        /\ tool_calls = <<>>
        /\ Len(create_log) = 1
        /\ stdout.returned = NewlineSeparated(texts(InitialContent))

C1_Witness ==
    /\ Responded
    /\ only_text(InitialContent)
    /\ Len(InitialContent) = 2
    /\ tool_calls = <<>>

\* C2: when the first completion answer holds exactly one tool-use block,
\* exactly one call_tool is issued, with that block's name and input, and the
\* returned text contains the trace line followed by the text of the first
\* block of the continuation answer.
C2_OneToolUseOneCall ==
    /\ ( /\ Responded \/ pc = "except"
         /\ create_log # <<>>
         /\ Len(tool_uses(InitialContent)) = 1 ) =>
            LET block == tool_uses(InitialContent)[1]
            IN  tool_calls = << [name |-> block.name, arguments |-> block.input] >>
    /\ (Responded /\ Len(tool_uses(InitialContent)) = 1) =>
            LET block == tool_uses(InitialContent)[1]
            IN  /\ Len(create_log) = 2
                /\ Contains(stdout.returned,
                       ExpectedTrace(block) \o <<NL>>
                           \o create_log[2].content[1].text)

C2_Witness ==
    /\ Responded
    /\ Len(InitialContent) = 2
    /\ Len(tool_uses(InitialContent)) = 1
    /\ Len(tool_calls) = 1

\* C3: a run of main that created a client runs cleanup exactly once, as the
\* last thing before the run ends, whether the loop ended normally, the
\* connection failed or queries raised; after the run the provider process is
\* not live.
C3_CleanupExactlyOnce ==
    /\ cleanup_count <= 1
    /\ pc # "done" => cleanup_count = 0
    /\ (pc = "done" /\ client) =>
          /\ cleanup_count = 1
          /\ proc # "live"
          /\ exit_stack = <<>>
    /\ (pc = "done" /\ ~client) => (cleanup_count = 0 /\ spawn_count = 0)

C3_Witness ==
    /\ pc = "done"
    /\ cleanup_count = 1
    /\ proc = "terminated"
    /\ last_outcome = "raised"

\* C4: connect_to_server with a path ending neither in .py nor in .js fails
\* with ValueError, spawns no process and leaves the session unset.
C4_UnrecognizedSuffixFails ==
    (client /\ pc # "connect" /\ UnrecognizedSuffix(argv[2])) =>
        /\ exc = "ValueError"
        /\ pc \in { "finally", "done" }
        /\ spawn_count = 0
        /\ proc = "none"
        /\ session = "None"
        /\ exit_stack = <<>>

C4_Witness ==
    /\ pc = "finally"
    /\ exc = "ValueError"
    /\ argv[2] = <<"s", ".", "p", "y", "c">>

\* C5: the conversation given to the first completion call of every query is
\* exactly one user message holding that query's text, whatever earlier
\* queries did.
C5_FreshConversation ==
    (create_log # <<>> /\ pc \notin { "process_query", "finally", "done" }) =>
        /\ Len(create_log[1].messages) = 1
        /\ create_log[1].messages[1] =
               [role |-> "user", content |-> [kind |-> "str", text |-> query]]

C5_Witness ==
    /\ pc = "pq_loop"
    /\ last_outcome = "raised"
    /\ Len(create_log) = 1
    /\ create_log[1].messages[1].content.text = <<"y", "o">>

\* C6: a failure inside process_query is caught by the loop: it is reported,
\* the loop goes on to read the next line, and the session, the provider
\* process and the run are left as they were.
C6_FailedQueryKeepsLoop ==
    [][ /\ (pc \in QueryPcs /\ exc' # "None") =>
              (pc' = "except" /\ SessionKept)
        /\ (pc = "except") =>
              /\ pc' = "input"
              /\ stdout' = [kind |-> "error", exc |-> exc]
              /\ exc' = "None"
              /\ SessionKept ]_vars

C6_Witness ==
    /\ last_outcome = "raised"
    /\ pc = "pq_continue"
    /\ proc = "live"
    /\ session = "ClientSession"
    /\ cleanup_count = 0

\* C7: at every point the roles of the conversation alternate user,
\* assistant, user, ..., starting with user, in the conversation held by
\* process_query and in every conversation it sent to the completion service.
C7_RolesAlternate ==
    /\ \A i \in 1..Len(messages) :
          messages[i].role = IF i % 2 = 1 THEN "user" ELSE "assistant"
    /\ \A k \in 1..Len(create_log) :
          \A i \in 1..Len(create_log[k].messages) :
              create_log[k].messages[i].role =
                  IF i % 2 = 1 THEN "user" ELSE "assistant"

C7_Witness ==
    /\ pc = "pq_continue"
    /\ Len(messages) = 5

\* C8: at every point every tool-result block of the conversation carries
\* the id of a tool-use block of an assistant message that precedes it.
C8_ToolResultsAnswerEarlierToolUse ==
    LET conv == wire(messages, assistant_message_content)
    IN  \A i \in 1..Len(conv) :
            conv[i].content.kind = "list" =>
                \A k \in 1..Len(conv[i].content.blocks) :
                    LET b == conv[i].content.blocks[k]
                    IN  b.type = "tool_result" =>
                            \E j \in 1..(i - 1) :
                                /\ conv[j].role = "assistant"
                                /\ conv[j].content.kind = "list"
                                /\ \E m \in 1..Len(conv[j].content.blocks) :
                                      /\ conv[j].content.blocks[m].type = "tool_use"
                                      /\ conv[j].content.blocks[m].id = b.tool_use_id

C8_Witness ==
    /\ pc = "pq_continue"
    /\ Len(messages) = 3
    /\ messages[3].content.blocks[1].tool_use_id = "tu2"

\* C9: a query makes one initial completion call and at most one
\* continuation call per tool-use block of the initial answer; the loop works
\* through the initial answer only, so tool-use blocks of a continuation
\* answer are never dispatched.
C9_BoundedCompletionCalls ==
    /\ create_log = <<>> => tool_calls = <<>>
    /\ create_log # <<>> =>
          LET n == Len(tool_uses(InitialContent))
          IN  /\ Len(create_log) <= 1 + n
              /\ Len(tool_calls) <= n
              /\ Len(create_log) <= 1 + Len(tool_calls)
              /\ \A k \in 1..Len(tool_calls) :
                    \E j \in 1..n : tool_calls[k] = requests(InitialContent)[j]
              /\ pc \in QueryPcs \ { "process_query" } => idx <= Len(InitialContent)

C9_Witness ==
    /\ Responded
    /\ Len(create_log) = 3
    /\ Len(create_log[2].content) = 2
    /\ create_log[2].content[2].type = "tool_use"
    /\ Len(tool_calls) = 2

\* C10: call_tool requests go out in the order of the tool-use blocks of the
\* initial answer, each only after the call_tool and the continuation call of
\* the block before it are over; at most one call_tool is outstanding.
C10_SequentialDispatch ==
    /\ outstanding \in { 0, 1 }
    /\ outstanding = 1 <=> pc = "pq_call"
    /\ create_log # <<>> =>
          /\ Len(tool_calls) <= Len(requests(InitialContent))
          /\ tool_calls = SubSeq(requests(InitialContent), 1, Len(tool_calls))
    /\ pc = "pq_call" =>
          /\ Len(create_log) = Len(tool_calls)
          /\ \A k \in 1..Len(create_log) : create_log[k].ok

C10_Witness ==
    /\ pc = "pq_call"
    /\ Len(tool_calls) = 2
    /\ tool_calls[1] # tool_calls[2]
    /\ outstanding = 1

\* C11: an exception of call_tool (error answer of the provider, or closed
\* channel) leaves process_query: the loop's except clause is reached with
\* nothing printed as a response, the call is not sent again, and no call_tool
\* or completion call follows until a new query starts.
C11_CallToolFailurePropagates ==
    [][ /\ (pc = "pq_call" /\ exc' # "None") =>
              /\ pc' = "except"
              /\ outstanding' = 0
              /\ UNCHANGED << tool_calls, create_log, stdout, messages,
                              final_text >>
        /\ (pc = "except") =>
              /\ stdout'.kind = "error"
              /\ UNCHANGED << tool_calls, create_log, outstanding >>
        /\ (pc = "input") =>
              UNCHANGED << tool_calls, create_log, outstanding >> ]_vars

C11_Witness ==
    /\ pc = "except"
    /\ exc = "ClosedResourceError"
    /\ Len(tool_calls) = 2
    /\ Len(create_log) = 2
    /\ outstanding = 0

-----------------------------------------------------------------------------
(* Vocabulary of the later properties *)

LoopPcs == QueryPcs \cup { "chat_loop", "input", "except" }

\* the schemas that the descriptors of a tool list give
SchemasOf(tools) ==
    [i \in 1..Len(tools) |->
        [name |-> tools[i].name,
         description |-> tools[i].description,
         input_schema |-> tools[i].inputSchema]]

\* the line is the word quit, in any letter case, between optional whitespace
IsQuitLine(l) ==
    \E i \in 1..Len(l) :
        /\ i + 3 <= Len(l)
        /\ l[i] \in { "q", "Q" }
        /\ l[i + 1] \in { "u", "U" }
        /\ l[i + 2] \in { "i", "I" }
        /\ l[i + 3] \in { "t", "T" }
        /\ \A j \in 1..Len(l) : (j < i \/ j > i + 3) => l[j] \in { " ", "\t", "\n" }

\* the line without the whitespace around it
Trimmed(l) ==
    IF \A j \in 1..Len(l) : l[j] \in { " ", "\t", "\n" }
    THEN <<>>
    ELSE LET first == CHOOSE i \in 1..Len(l) :
                          /\ l[i] \notin { " ", "\t", "\n" }
                          /\ \A j \in 1..(i - 1) : l[j] \in { " ", "\t", "\n" }
             last == CHOOSE i \in 1..Len(l) :
                          /\ l[i] \notin { " ", "\t", "\n" }
                          /\ \A j \in (i + 1)..Len(l) : l[j] \in { " ", "\t", "\n" }
         IN  SubSeq(l, first, last)

\* the blocks of a message as the completion service received it
blocks_of(m) == IF m.content.kind = "list" THEN m.content.blocks ELSE <<>>

-----------------------------------------------------------------------------
(* Later properties *)

\* C15: no list_tools and no call_tool is issued before the handshake has
\* completed; when the handshake fails, the loop is never entered and no
\* query is served.
C15_NothingBeforeHandshake ==
    ~initialized =>
        /\ pc \in { "main", "connect", "stdio", "session", "initialize",
                    "finally", "done" }
        /\ list_calls = 0
        /\ tool_calls = <<>>
        /\ outstanding = 0
        /\ create_log = <<>>
        /\ last_outcome = "none"
        /\ fetched = <<>>

C15_Witness ==
    /\ pc = "done"
    /\ ~initialized
    /\ session = "ClientSession"
    /\ exc = "McpError"
    /\ cleanup_count = 1

\* C16: list_tools is asked once during initialization and once at the start
\* of every query, before the query's first completion call; every completion
\* call of a query receives the schemas of the tool list fetched in that
\* query.
C16_CatalogFetchedPerQuery ==
    /\ pc = "chat_loop" => list_calls = 1
    /\ pc = "pq_list" => (list_calls = 1 /\ create_log = <<>>)
    /\ pc \in { "pq_create", "pq_loop", "pq_call", "pq_continue" } =>
          /\ list_calls = 1
          /\ \A k \in 1..Len(create_log) :
                create_log[k].tools = SchemasOf(fetched)

C16_Witness ==
    /\ pc = "pq_loop"
    /\ last_outcome = "returned"
    /\ Len(create_log) = 3
    /\ Len(fetched) = 2

\* C17 as stated: when call_tool is invoked for a tool-use block, the block
\* is already in the accumulator and the assistant message is already the
\* last message of the conversation.
C17_AssistantMessageBeforeCall ==
    pc = "pq_call" =>
        /\ Len(messages) = 2 * Len(tool_calls)
        /\ messages[Len(messages)].role = "assistant"
        /\ Len(tool_uses(assistant_message_content)) = Len(tool_calls)

\* C17 amended: call_tool is invoked first, while neither the block nor the
\* assistant message has been added; after its answer the block is added to
\* the accumulator, the assistant message and then the user message with one
\* tool-result block of the same id are appended, and only then the
\* completion service is called with that conversation.
C17_CallThenAppendThenContinue ==
    /\ pc = "pq_call" =>
          /\ Len(messages) = 2 * Len(tool_calls) - 1
          /\ messages[Len(messages)].role = "user"
          /\ Len(tool_uses(assistant_message_content)) = Len(tool_calls) - 1
    /\ pc = "pq_continue" =>
          /\ Len(messages) = 2 * Len(tool_calls) + 1
          /\ Len(create_log) = Len(tool_calls)
          /\ assistant_message_content[Len(assistant_message_content)] = content
    /\ (create_log # <<>> /\ pc \in QueryPcs \ { "process_query" }) =>
          \A k \in 2..Len(create_log) :
              LET sent == create_log[k].messages
                  used == tool_uses(InitialContent)[k - 1]
              IN  /\ Len(sent) = 2 * k - 1
                  /\ sent[2 * k - 2].role = "assistant"
                  /\ \E j \in 1..Len(blocks_of(sent[2 * k - 2])) :
                        blocks_of(sent[2 * k - 2])[j] = used
                  /\ sent[2 * k - 1].role = "user"
                  /\ Len(blocks_of(sent[2 * k - 1])) = 1
                  /\ blocks_of(sent[2 * k - 1])[1].type = "tool_result"
                  /\ blocks_of(sent[2 * k - 1])[1].tool_use_id = used.id

C17_Witness ==
    /\ pc = "pq_call"
    /\ Len(tool_calls) = 2
    /\ Len(messages) = 3
    /\ Len(assistant_message_content) = 1

\* C18: the loop ends exactly when the line read, without the whitespace
\* around it, is quit in any letter case; such a line is not forwarded, and
\* every other line is forwarded to process_query once, trimmed.
C18_QuitEndsLoop ==
    [][ /\ (pc = "input" /\ pc' \in { "finally", "process_query" }) =>
              /\ pc' = "finally" <=> IsQuitLine(line')
              /\ query' = Trimmed(line')
        /\ (pc \in LoopPcs /\ pc' \notin LoopPcs) =>
              (pc = "input" /\ pc' = "finally" /\ IsQuitLine(line'))
        /\ (pc' = "process_query") => (pc = "input" /\ ~IsQuitLine(line'))
        /\ (pc = "process_query") => (pc' = "pq_list" /\ UNCHANGED << query, line >>)
        /\ (pc = "finally") => (pc' = "done" /\ UNCHANGED tool_calls) ]_vars

C18_Witness ==
    /\ pc = "finally"
    /\ exc = "None"
    /\ line = <<" ", "Q", "u", "I", "t", " ">>
    /\ last_outcome = "returned"

\* C19: in every conversation sent to the completion service, every tool-use
\* block of an assistant message is answered by a tool-result block of the
\* same id in the message right after it.
C19_SentToolUsesAnswered ==
    \A k \in 1..Len(create_log) :
        LET sent == create_log[k].messages
        IN  \A i \in 1..Len(sent) :
                sent[i].role = "assistant" =>
                    \A j \in 1..Len(blocks_of(sent[i])) :
                        blocks_of(sent[i])[j].type = "tool_use" =>
                            /\ i < Len(sent)
                            /\ \E r \in 1..Len(blocks_of(sent[i + 1])) :
                                  /\ blocks_of(sent[i + 1])[r].type = "tool_result"
                                  /\ blocks_of(sent[i + 1])[r].tool_use_id =
                                         blocks_of(sent[i])[j].id

\* C20: when reading a line fails because the input has ended, the loop ends
\* and the run goes on to cleanup.
C20_EndOfInputEndsLoop ==
    [][ (pc = "input" /\ exc' = "EOFError") => pc' = "finally" ]_vars

(* The tool provider's claims *)

\* the call being served has ended
Served(tool) == s_pc = "done" /\ s_call.tool = tool

\* the last exchange gave make_nws_request a JSON object with this key
Obtained(key) ==
    /\ s_reply.kind = "ok"
    /\ s_reply.body.t = "dict"
    /\ key \in DOMAIN s_reply.body.d

\* the alerts answer carries a feature list
HasFeatureList == Obtained("features") /\ s_reply.body.d.features.t = "list"

UpstreamFeatures == s_reply.body.d.features.xs

\* the forecast answer carries a list of periods
HasPeriods ==
    /\ Len(s_requests) = 2
    /\ Obtained("properties")
    /\ "periods" \in DOMAIN s_reply.body.d.properties

UpstreamPeriods == s_reply.body.d.properties.periods

Returns(text) == s_result.kind = "return" /\ s_result.text = text

Occurrences(s, sub) ==
    Cardinality({ i \in 0..(Len(s) - Len(sub)) :
                    SubSeq(s, i + 1, i + Len(sub)) = sub })

\* the label every period entry of a forecast text carries once
ForecastLabel ==
    << "\n", "F", "o", "r", "e", "c", "a", "s", "t", ":", " " >>

\* C12: whatever the weather service does with a request, get_alerts and
\* get_forecast end by returning a text and never by raising an error.
C12_ToolsNeverRaise ==
    s_pc = "done" => s_result.kind = "return"

C14_FirstFivePeriods ==
    (Served("get_forecast") /\ HasPeriods /\ s_result.kind = "return") =>
        LET n == Len(UpstreamPeriods)
            m == IF n < 5 THEN n ELSE 5
        IN  /\ Occurrences(s_result.text, ForecastLabel) = m
            /\ s_result.text =
                   join(entry_separator,
                        [i \in 1..m |-> format_period(UpstreamPeriods[i])])

C14_Witness ==
    /\ Served("get_forecast")
    /\ HasPeriods
    /\ Len(UpstreamPeriods) > 5
    /\ s_result.kind = "return"
    /\ Occurrences(s_result.text, ForecastLabel) = 5

====
